---- MODULE Spec2Model ----
(***************************************************************************)
(* Model of SimpleMentraPhotoApp (src/src/index.ts): the capture-to-       *)
(* persistence pipeline.  One "run" is one invocation of the async         *)
(* onButtonPress handler; every await on an external service (camera,      *)
(* face service on localhost:5000, Supabase storage and tables) is one     *)
(* action, whose outcome is chosen by the environment.  The code between   *)
(* two awaits runs without interleaving (JavaScript run-to-completion), so *)
(* it belongs to the action of the await that precedes it.                 *)
(***************************************************************************)
EXTENDS Integers, Sequences, FiniteSets, TLC

(* ---------------------------- bounds ----------------------------------- *)
\* longest face_crops list the crop service answers with
MaxCrops == 2
\* largest value Date.now() takes (the clock starts at 0)
MaxClock == 0

\* The invocations of the onButtonPress handler in one behaviour, in the
\* order their button is pressed: two, so that one handler can run while
\* or after another one writes.
Runs == {1, 2}

\* userId of a session, requestId and timestamp of a photo: opaque values
\* set outside the program.  UserOrder and RequestOrder list them in the
\* order a behaviour first uses them (the names carry no meaning).  A
\* requestId is the token of one camera request of one session: a request
\* either repeats a token of its own session (the same CapturedPhoto
\* delivered again) or gets the next unused one.
UserOrder == <<"u1", "u2">>
RequestOrder == <<"p1", "p2">>
Users == {UserOrder[i] : i \in DOMAIN UserOrder}
RequestIds == {RequestOrder[i] : i \in DOMAIN RequestOrder}
Timestamps == {"t1"}

\* face_id of the k-th crop of a photo: the crop service numbers the faces
\* of one photo, so face ids are distinct within a photo and the same ids
\* recur in every photo.
FaceId(k) == k - 1

\* PhotoData as delivered by session.camera.requestPhoto(); buffer is the
\* raw image as captured.
CapturedPhotos == [requestId : RequestIds, timestamp : Timestamps, buffer : {"original"},
                   mimeType : {"image/jpeg"}]
NoPhoto == [requestId |-> "none", timestamp |-> "none", buffer |-> "none",
            mimeType |-> "none"]

\* What a route sends: nothing, the JSON of GET /photos, or the answer of
\* GET /photos/:requestId (the photo, or 404).
NoResponse == [route |-> "none"]

\* cropResult.face_crops: a list of at most MaxCrops crops.
CropLists == {[k \in 1..n |-> FaceId(k)] : n \in 0..MaxCrops}

NoId == <<>>

VARIABLES
  faceApiInitialized, \* private faceApiInitialized (index.ts:23)
  health,             \* position of initializeFaceAPI(): pending/connected/disabled
  photos,             \* private photos: PhotoData[] (index.ts:21)
  now,                \* last value read from Date.now()
  bucketPhotos,       \* objects of storage bucket 'testphoto'
  bucketCrops,        \* objects of storage bucket 'face_crops'
  testphoto,          \* rows of table 'testphoto'
  face_embeddings,    \* rows of table 'face_embeddings'
  pc,                 \* per run: the await the handler is suspended at
  user,               \* per run: userId of the session the handler belongs to
  photo,              \* per run: const photo (index.ts:67)
  buffer,             \* per run: buffer of processedPhoto ("none" until known)
  crops,              \* per run: faceCrops argument of storeFaceCrops
  idx,                \* per run: position of the for..of loop in faceCrops
  tempPersonId,       \* per run: const tempPersonId of the current iteration
  ui,                 \* per run: last text given to session.layouts.showTextWall
  hist,               \* per run: what each call of the run returned (history)
  http                \* the response sent by the step just taken (NoResponse
                      \* when that step was not the handling of a GET)

shared == <<faceApiInitialized, health, photos, now, bucketPhotos, bucketCrops,
            testphoto, face_embeddings>>
locals == <<pc, user, photo, buffer, crops, idx, tempPersonId, ui, hist>>
vars == <<shared, locals, http>>

\* hist[r] has one field per call site of the pipeline, holding how the call
\* ended ("none" = not reached); degraded is set where the code logs the
\* Phase 1 fallback, embedFailed holds the loop positions whose embedding
\* step stored no row, cropAbort the loop position at which storeFaceCrops
\* threw (0 = it did not), calls the requests the run has sent so far, in
\* the order it sent them, each with the loop position it belongs to (0
\* outside the loop).  The rows and objects carry the run (and loop
\* position) that wrote them, which stands for the identity the store
\* gives each of them.
NoHist == [gate |-> "none", detect |-> "none", crop |-> "none", annotate |-> "none",
           upload |-> "none", record |-> "none", degraded |-> FALSE,
           embedFailed |-> {}, cropAbort |-> 0, calls |-> <<>>]

(* ------------------------- pure helpers -------------------------------- *)
\* `${userId}/${photo.requestId}_${photo.timestamp}.jpg` (index.ts:356)
PhotoFileName(u, p) == <<u, p.requestId, p.timestamp>>

\* Mutant of TempPersonId: the face id is left out.
TempPersonIdNoFace(t, faceId) == <<t>>

\* `temp_person_${Date.now()}_${faceCrop.face_id}` (index.ts:246)
TempPersonId(t, faceId) == <<t, faceId>>

\* `${tempPersonId}/${photoRequestId}_face_${faceCrop.face_id}.jpg` (index.ts:249)
CropFileName(tp, requestId, faceId) == <<tp, requestId, faceId>>

\* supabase.storage.from(bucket).getPublicUrl(fileName).data.publicUrl
PublicUrl(bucket, fileName) == [bucket |-> bucket, path |-> fileName]

Paths(bucket) == {o.path : o \in bucket}

NoMeta == [photo_request_id |-> "none", face_id |-> -1, temp_person_id |-> NoId]

Init ==
  /\ faceApiInitialized = FALSE
  /\ health = "pending"
  /\ photos = <<>>
  /\ now = 0
  /\ bucketPhotos = {}
  /\ bucketCrops = {}
  /\ testphoto = {}
  /\ face_embeddings = {}
  /\ pc = [r \in Runs |-> "idle"]
  /\ user = [r \in Runs |-> "none"]
  /\ photo = [r \in Runs |-> NoPhoto]
  /\ buffer = [r \in Runs |-> "none"]
  /\ crops = [r \in Runs |-> <<>>]
  /\ idx = [r \in Runs |-> 0]
  /\ tempPersonId = [r \in Runs |-> NoId]
  /\ ui = [r \in Runs |-> "none"]
  /\ hist = [r \in Runs |-> NoHist]
  /\ http = NoResponse


(* ------------------- decisions taken by the code ------------------------ *)
\* Outcomes of one fetch() to the face service, as the code tells them apart:
\*   "throw"  - fetch rejects (service unreachable) or response.json() rejects
\*   "status" - a response with !response.ok
\*   "noface" - 200 with has_faces = false
\*   "faces"  - 200 with has_faces = true
FetchOutcomes == {"throw", "status", "noface", "faces"}
FetchFailed(res) == res \in {"throw", "status"}

\* Mutant of DetectFaceGate: an uninitialized service rejects every photo.
DetectFaceGateClosed(initialized) == IF ~initialized THEN "false" ELSE "ask"

\* detectFace, first statement: without the service it returns true (every
\* photo is allowed); otherwise it goes on to ask the service.
DetectFaceGate(initialized) == IF ~initialized THEN "true" ELSE "ask"

\* Mutant of DetectFaceReturn: the catch block returns false.
DetectFaceReturnClosed(res) == IF FetchFailed(res) THEN FALSE ELSE res = "faces"

\* detectFace, value returned once the /detect-faces call has ended:
\* result.has_faces on success, true from the catch block.
DetectFaceReturn(res) == IF FetchFailed(res) THEN TRUE ELSE res = "faces"

\* Mutant of HandlerSkipsUpload: the early return is missing.
HandlerNeverSkips(hasFace) == FALSE

\* onButtonPress: if (!hasFace) { showTextWall(...); return; }
HandlerSkipsUpload(hasFace) == ~hasFace

\* Mutant of ProcessPhotoGate: the check of the flag is missing.
ProcessPhotoGateMissing(initialized) == "crop"

\* processPhotoWithFace, first statement: without the service it returns
\* the photo as it is; otherwise it goes on to the /crop-faces call.
ProcessPhotoGate(initialized) == IF ~initialized THEN "original" ELSE "crop"

\* Mutant of AfterCrop: a non-ok answer returns the photo without the
\* Phase 1 call.
AfterCropNoFallback(res) ==
  CASE res = "status" -> "original"
    [] res = "throw"  -> "original"
    [] res = "noface" -> "original"
    [] res = "faces"  -> "store"

\* Mutant of AfterCrop: has_faces=false goes on to /process-faces.
AfterCropAnnotatesNoFace(res) ==
  CASE res = "status" -> "fallback"
    [] res = "throw"  -> "original"
    [] res = "noface" -> "fallback"
    [] res = "faces"  -> "store"

\* processPhotoWithFace, what follows the /crop-faces call:
\*   "fallback" - !cropResponse.ok: Phase 1 only, /process-faces on the original
\*   "original" - the catch block, or !cropResult.has_faces: return photo
\*   "store"    - storeFaceCrops(cropResult.face_crops, ...)
AfterCrop(res) ==
  CASE res = "status" -> "fallback"
    [] res = "throw"  -> "original"
    [] res = "noface" -> "original"
    [] res = "faces"  -> "store"

\* processPhotoWithFace, buffer returned after the Phase 1 fallback call to
\* /process-faces: the catch block and !result.has_faces return the photo.
FallbackBuffer(res) == IF res = "faces" THEN "annotated" ELSE "original"

\* Mutant of AnnotateBuffer: the answer is used without looking at
\* processResponse.ok.
AnnotateBufferUnchecked(res) == "annotated"

\* processPhotoWithFace, buffer returned after the /process-faces call that
\* follows storeFaceCrops: has_faces is not read there.
AnnotateBuffer(res) == IF FetchFailed(res) THEN "original" ELSE "annotated"

\* Mutant of PhotosPush: this.photos.unshift(photo).
PhotosUnshift(list, p) == <<p>> \o list

\* this.photos.push(photo) (index.ts:71)
PhotosPush(list, p) == Append(list, p)

\* Mutant of RegistryAfterProcess: photo.buffer = processedBuffer, written
\* into the object the registry holds.
RegistryWrittenInPlace(list, p, buf) ==
  [i \in DOMAIN list |-> IF list[i] = p THEN [p EXCEPT !.buffer = buf] ELSE list[i]]

\* The registry after processPhotoWithFace returned a photo with buffer
\* `buf` for the registry entry p: the function builds a new object
\* ({...photo, buffer: processedBuffer}) or returns photo itself, and never
\* assigns to a field of photo, so the entry stays as it is.
RegistryAfterProcess(list, p, buf) == list

\* Mutant of UploadOutcomes: upsert: true, an existing path is overwritten.
UploadOutcomesUpsert(bucket, path) == {"ok", "failed"}

\* storage.upload(..., {upsert: false}): the object store refuses a path
\* that already holds an object; otherwise the transfer succeeds or fails.
UploadOutcomes(bucket, path) ==
  IF path \in Paths(bucket) THEN {"exists"} ELSE {"ok", "failed"}

\* The object store after an upload that ended `res`: a stored object takes
\* the place of whatever the path held.
StoragePut(bucket, obj, res) ==
  IF res = "ok" THEN {o \in bucket : o.path # obj.path} \cup {obj} ELSE bucket

\* A table after an insert that ended `res`.
TableInsert(table, row, res) ==
  IF res = "ok" THEN table \cup {row} ELSE table

\* Mutant of UploadThrows: the error of the upload is not looked at.
UploadNeverThrows(res) == FALSE

\* if (cropUploadError) throw cropUploadError;   if (uploadError) throw uploadError;
UploadThrows(res) == res # "ok"

\* Mutant of InsertThrows: the error of the insert is not looked at.
InsertNeverThrows(res) == FALSE

\* if (dbError) throw dbError;   if (error) throw error;
InsertThrows(res) == res # "ok"

\* Outcomes of the embedding step of one crop:
\*   "throw"/"status" - the /generate-embedding call failed
\*   "nosuccess"      - 200 with success = false (early return)
\*   "insertfailed"   - the face_embeddings insert returned an error
\*   "stored"         - the row was inserted
EmbedOutcomes == {"throw", "status", "nosuccess", "insertfailed", "stored"}

\* Mutant of EmbeddingThrows: the catch block rethrows.
EmbeddingRethrows(res) == res \in {"throw", "status", "insertfailed"}

\* generateAndStoreEmbedding: does the call reject?  Its catch block logs
\* and does not rethrow, and success=false returns early.
EmbeddingThrows(res) == FALSE

\* Mutant of EmbeddingStored: success is not looked at, the row is always
\* inserted.
EmbeddingStoredAlways(res) == TRUE

\* generateAndStoreEmbedding: is a face_embeddings row inserted?
EmbeddingStored(res) == res = "stored"

\* The values of `order` a behaviour may use next: those already in use and
\* the first one not yet used.
FirstUse(order, used) ==
  {order[i] : i \in {j \in DOMAIN order :
                       \A k \in 1..(j - 1) : order[k] \in used}}

(* ------------------------- startup ------------------------------------- *)
\* Mutant of HealthSetsFlag: response.ok is not looked at.
HealthSetsFlagOnAnyAnswer(res) == res \in {"ok", "status"}

\* initializeFaceAPI: `if (response.ok) this.faceApiInitialized = true`; a
\* rejected fetch and a non-ok answer both end in the catch block, which
\* only logs.
HealthSetsFlag(res) == res = "ok"

\* initializeFaceAPI(): called from the constructor and not awaited; the
\* answer of GET /health arrives at any time, also after button presses.
InitializeFaceAPI ==
  /\ health = "pending"
  /\ http' = NoResponse
  /\ \E res \in {"throw", "status", "ok"} :
       /\ faceApiInitialized' = (faceApiInitialized \/ HealthSetsFlag(res))
       /\ health' = IF res = "ok" THEN "connected" ELSE "disabled"
  /\ UNCHANGED <<photos, now, bucketPhotos, bucketCrops, testphoto, face_embeddings>>
  /\ UNCHANGED locals

(* ------------------------- the handler --------------------------------- *)
SetHist(r, field, val) == [hist EXCEPT ![r][field] = val]

\* The history of run r after the request `call` of loop position k was sent.
Called(h, r, call, k) == [h EXCEPT ![r].calls = Append(@, <<call, k>>)]

\* onButtonPress up to `await session.camera.requestPhoto()`.  The handler
\* holds no lock: a press is accepted whatever other handlers are doing.
\* Runs are numbered in the order their button is pressed.
ButtonPress(r) ==
  /\ pc[r] = "idle"
  /\ http' = NoResponse
  /\ \A q \in Runs : q < r => pc[q] # "idle"
  /\ \E u \in FirstUse(UserOrder, {user[q] : q \in Runs}) :
       user' = [user EXCEPT ![r] = u]
  /\ ui' = [ui EXCEPT ![r] = "Taking photo..."]
  /\ pc' = [pc EXCEPT ![r] = "requestPhoto"]
  /\ UNCHANGED <<photo, buffer, crops, idx, tempPersonId, hist>>
  /\ UNCHANGED shared

\* Mutant of HandlerCatch: the catch block only logs, no text is shown.
HandlerCatchSilent(r) ==
  /\ ui' = ui
  /\ pc' = [pc EXCEPT ![r] = "done"]

\* The catch block of the handler.
HandlerCatch(r) ==
  /\ ui' = [ui EXCEPT ![r] = "Error taking photo"]
  /\ pc' = [pc EXCEPT ![r] = "done"]

\* requestPhoto() rejects.
RequestPhotoFails(r) ==
  /\ pc[r] = "requestPhoto"
  /\ http' = NoResponse
  /\ HandlerCatch(r)
  /\ UNCHANGED <<user, photo, buffer, crops, idx, tempPersonId, hist>>
  /\ UNCHANGED shared

\* requestPhoto() resolves: photos.push(photo), then detectFace(photo) up to
\* its fetch.  When the service is not initialized detectFace returns true
\* and processPhotoWithFace returns the photo without awaiting anything, so
\* the handler goes on to the upload within the same turn of the event loop:
\* both functions read the flag before any callback of the health check
\* can run.
RequestPhoto(r) ==
  /\ pc[r] = "requestPhoto"
  /\ http' = NoResponse
  /\ \E p \in CapturedPhotos :
       /\ \/ \E q \in Runs : user[q] = user[r] /\ photo[q].requestId = p.requestId
          \/ p.requestId \in FirstUse(RequestOrder, {photo[q].requestId : q \in Runs})
                             \ {photo[q].requestId : q \in Runs}
       /\ photo' = [photo EXCEPT ![r] = p]
       /\ photos' = PhotosPush(photos, p)
  /\ IF DetectFaceGate(faceApiInitialized) # "ask"
     THEN /\ IF HandlerSkipsUpload(DetectFaceGate(faceApiInitialized) = "true")
             THEN /\ ui' = [ui EXCEPT ![r] = "No face detected - photo not saved"]
                  /\ pc' = [pc EXCEPT ![r] = "done"]
                  /\ buffer' = buffer
             ELSE /\ ui' = ui
                  /\ IF ProcessPhotoGate(faceApiInitialized) = "original"
                     THEN /\ pc' = [pc EXCEPT ![r] = "upload"]
                          /\ buffer' = [buffer EXCEPT ![r] = "original"]
                     ELSE /\ pc' = [pc EXCEPT ![r] = "crop"]
                          /\ buffer' = buffer
          /\ hist' = [hist EXCEPT ![r].gate = "unavailable", ![r].detect = "skipped"]
     ELSE /\ pc' = [pc EXCEPT ![r] = "detect"]
          /\ hist' = SetHist(r, "gate", "available")
          /\ UNCHANGED <<ui, buffer>>
  /\ UNCHANGED <<user, crops, idx, tempPersonId>>
  /\ UNCHANGED <<faceApiInitialized, health, now, bucketPhotos, bucketCrops,
                 testphoto, face_embeddings>>

\* POST /detect-faces ends; detectFace returns; the handler either shows
\* the discard text and returns, or enters processPhotoWithFace, which
\* (faceApiInitialized being true since detectFace read it) starts the
\* /crop-faces call.
Detect(r) ==
  /\ pc[r] = "detect"
  /\ http' = NoResponse
  /\ \E res \in FetchOutcomes :
       /\ hist' = Called(SetHist(r, "detect", IF FetchFailed(res) THEN "failed" ELSE res),
                         r, "detect", 0)
       /\ IF HandlerSkipsUpload(DetectFaceReturn(res))
          THEN /\ ui' = [ui EXCEPT ![r] = "No face detected - photo not saved"]
               /\ pc' = [pc EXCEPT ![r] = "done"]
               /\ buffer' = buffer
          ELSE /\ ui' = ui
               /\ IF ProcessPhotoGate(faceApiInitialized) = "original"
                  THEN /\ pc' = [pc EXCEPT ![r] = "upload"]
                       /\ buffer' = [buffer EXCEPT ![r] = "original"]
                  ELSE /\ pc' = [pc EXCEPT ![r] = "crop"]
                       /\ buffer' = buffer
  /\ UNCHANGED <<user, photo, crops, idx, tempPersonId>>
  /\ UNCHANGED shared


\* The catch block of processPhotoWithFace: `return photo`; the handler
\* then calls uploadPhotoAndCreateEncounter with the original photo.
ProcessCatch(r) ==
  /\ buffer' = [buffer EXCEPT ![r] = "original"]
  /\ pc' = [pc EXCEPT ![r] = "upload"]

\* storeFaceCrops, head of the for..of loop at position k of `list`: when
\* the list is exhausted control is back in processPhotoWithFace, which
\* starts the /process-faces call; otherwise Date.now() is read (it does
\* not run backwards), tempPersonId is built and the crop upload starts.
LoopHead(r, list, k) ==
  /\ crops' = [crops EXCEPT ![r] = list]
  /\ idx' = [idx EXCEPT ![r] = k]
  /\ IF k > Len(list)
     THEN /\ pc' = [pc EXCEPT ![r] = "annotate"]
          /\ UNCHANGED <<now, tempPersonId>>
     ELSE /\ pc' = [pc EXCEPT ![r] = "uploadCrop"]
          /\ \E t \in now..MaxClock :
               /\ now' = t
               /\ tempPersonId' = [tempPersonId EXCEPT ![r] = TempPersonId(t, list[k])]

\* POST /crop-faces ends (processPhotoWithFace).
Crop(r) ==
  /\ pc[r] = "crop"
  /\ http' = NoResponse
  /\ \E res \in FetchOutcomes :
       CASE AfterCrop(res) = "fallback" ->
              /\ pc' = [pc EXCEPT ![r] = "annotateFallback"]
              /\ hist' = Called([hist EXCEPT ![r].crop = res, ![r].degraded = TRUE],
                                r, "crop", 0)
              /\ UNCHANGED <<buffer, crops, idx, tempPersonId, now>>
         [] AfterCrop(res) = "original" ->
              /\ ProcessCatch(r)
              /\ hist' = Called(SetHist(r, "crop", res), r, "crop", 0)
              /\ UNCHANGED <<crops, idx, tempPersonId, now>>
         [] AfterCrop(res) = "store" ->
              \E list \in CropLists :
                /\ crops' = [crops EXCEPT ![r] = list]
                /\ LoopHead(r, list, 1)
                /\ hist' = Called(SetHist(r, "crop", res), r, "crop", 0)
                /\ UNCHANGED buffer
  /\ UNCHANGED <<user, photo, ui>>
  /\ UNCHANGED <<faceApiInitialized, health, photos, bucketPhotos, bucketCrops,
                 testphoto, face_embeddings>>

\* The Phase 1 fallback call to POST /process-faces ends.
AnnotateFallback(r) ==
  /\ pc[r] = "annotateFallback"
  /\ http' = NoResponse
  /\ \E res \in FetchOutcomes :
       /\ buffer' = [buffer EXCEPT ![r] = FallbackBuffer(res)]
       /\ photos' = RegistryAfterProcess(photos, photo[r], FallbackBuffer(res))
       /\ hist' = Called(SetHist(r, "annotate", IF FetchFailed(res) THEN "failed" ELSE res),
                         r, "annotate", 0)
  /\ pc' = [pc EXCEPT ![r] = "upload"]
  /\ UNCHANGED <<user, photo, crops, idx, tempPersonId, ui>>
  /\ UNCHANGED <<faceApiInitialized, health, now, bucketPhotos, bucketCrops,
                 testphoto, face_embeddings>>

CropPath(r) == CropFileName(tempPersonId[r], photo[r].requestId, crops[r][idx[r]])

\* storage.from('face_crops').upload(cropFileName, ..., {upsert: false}) ends.
UploadCrop(r) ==
  /\ pc[r] = "uploadCrop"
  /\ http' = NoResponse
  /\ \E res \in UploadOutcomes(bucketCrops, CropPath(r)) :
       /\ bucketCrops' = StoragePut(bucketCrops,
                             [path |-> CropPath(r), run |-> r, idx |-> idx[r]], res)
       /\ IF UploadThrows(res)
          THEN /\ ProcessCatch(r)
               /\ hist' = Called(SetHist(r, "cropAbort", idx[r]), r, "uploadCrop", idx[r])
          ELSE /\ pc' = [pc EXCEPT ![r] = "recordCrop"]
               /\ hist' = Called(hist, r, "uploadCrop", idx[r])
               /\ UNCHANGED buffer
  /\ UNCHANGED <<user, photo, crops, idx, tempPersonId, ui>>
  /\ UNCHANGED <<faceApiInitialized, health, photos, now, bucketPhotos,
                 testphoto, face_embeddings>>

\* from('testphoto').insert({... status: 'face_crop' ...}).select().single() ends.
RecordCrop(r) ==
  /\ pc[r] = "recordCrop"
  /\ http' = NoResponse
  /\ \E res \in {"ok", "failed"} :
       /\ testphoto' = TableInsert(testphoto,
                 [image_url |-> PublicUrl("face_crops", CropPath(r)),
                  status |-> "face_crop",
                  metadata |-> [photo_request_id |-> photo[r].requestId,
                                face_id |-> crops[r][idx[r]],
                                temp_person_id |-> tempPersonId[r]],
                  run |-> r, idx |-> idx[r]], res)
       /\ IF InsertThrows(res)
          THEN /\ ProcessCatch(r)
               /\ hist' = Called(SetHist(r, "cropAbort", idx[r]), r, "recordCrop", idx[r])
          ELSE /\ pc' = [pc EXCEPT ![r] = "embed"]
               /\ hist' = Called(hist, r, "recordCrop", idx[r])
               /\ UNCHANGED buffer
  /\ UNCHANGED <<user, photo, crops, idx, tempPersonId, ui>>
  /\ UNCHANGED <<faceApiInitialized, health, photos, now, bucketPhotos, bucketCrops,
                 face_embeddings>>

\* generateAndStoreEmbedding(...) ends: the /generate-embedding call and,
\* when it reports success, the face_embeddings insert.
Embed(r) ==
  /\ pc[r] = "embed"
  /\ http' = NoResponse
  /\ \E res \in EmbedOutcomes :
       /\ face_embeddings' = TableInsert(face_embeddings,
                 [face_crop_url |-> PublicUrl("face_crops", CropPath(r)),
                  temp_person_id |-> tempPersonId[r],
                  is_processed |-> FALSE,
                  run |-> r, idx |-> idx[r]],
                 IF EmbeddingStored(res) THEN "ok" ELSE "failed")
       /\ IF EmbeddingThrows(res)
          THEN /\ ProcessCatch(r)
               /\ hist' = Called([hist EXCEPT ![r].cropAbort = idx[r],
                                              ![r].embedFailed = @ \cup {idx[r]}],
                                 r, "embed", idx[r])
               /\ UNCHANGED <<crops, idx, tempPersonId, now>>
          ELSE /\ LoopHead(r, crops[r], idx[r] + 1)
               /\ hist' = Called(IF res = "stored" THEN hist
                                 ELSE [hist EXCEPT ![r].embedFailed = @ \cup {idx[r]}],
                                 r, "embed", idx[r])
               /\ buffer' = buffer
  /\ UNCHANGED <<user, photo, ui>>
  /\ UNCHANGED <<faceApiInitialized, health, photos, bucketPhotos, bucketCrops,
                 testphoto>>

\* The POST /process-faces call that follows storeFaceCrops ends.
Annotate(r) ==
  /\ pc[r] = "annotate"
  /\ http' = NoResponse
  /\ \E res \in FetchOutcomes :
       /\ buffer' = [buffer EXCEPT ![r] = AnnotateBuffer(res)]
       /\ photos' = RegistryAfterProcess(photos, photo[r], AnnotateBuffer(res))
       /\ hist' = Called(SetHist(r, "annotate", IF FetchFailed(res) THEN "failed" ELSE "ok"),
                         r, "annotate", 0)
  /\ pc' = [pc EXCEPT ![r] = "upload"]
  /\ UNCHANGED <<user, photo, crops, idx, tempPersonId, ui>>
  /\ UNCHANGED <<faceApiInitialized, health, now, bucketPhotos, bucketCrops,
                 testphoto, face_embeddings>>

PhotoPath(r) == PhotoFileName(user[r], photo[r])

\* Mutant of Upload: a failed upload is sent a second time before the
\* error is thrown.
UploadWithRetry(r) ==
  /\ pc[r] = "upload"
  /\ http' = NoResponse
  /\ \E res \in UploadOutcomes(bucketPhotos, PhotoPath(r)) :
       /\ hist' = Called(SetHist(r, "upload", res), r, "upload", 0)
       /\ bucketPhotos' = StoragePut(bucketPhotos,
                 [path |-> PhotoPath(r), content |-> buffer[r], run |-> r], res)
       /\ IF UploadThrows(res)
          THEN IF hist[r].upload = "none"
               THEN UNCHANGED <<pc, ui>>
               ELSE HandlerCatch(r)
          ELSE /\ pc' = [pc EXCEPT ![r] = "record"]
               /\ ui' = ui
  /\ UNCHANGED <<user, photo, buffer, crops, idx, tempPersonId>>
  /\ UNCHANGED <<faceApiInitialized, health, photos, now, bucketCrops,
                 testphoto, face_embeddings>>

\* uploadPhotoAndCreateEncounter: storage.from('testphoto').upload(fileName,
\* photo.buffer, {upsert: false}) ends.
Upload(r) ==
  /\ pc[r] = "upload"
  /\ http' = NoResponse
  /\ \E res \in UploadOutcomes(bucketPhotos, PhotoPath(r)) :
       /\ hist' = Called(SetHist(r, "upload", res), r, "upload", 0)
       /\ bucketPhotos' = StoragePut(bucketPhotos,
                 [path |-> PhotoPath(r), content |-> buffer[r], run |-> r], res)
       /\ IF UploadThrows(res)
          THEN HandlerCatch(r)
          ELSE /\ pc' = [pc EXCEPT ![r] = "record"]
               /\ ui' = ui
  /\ UNCHANGED <<user, photo, buffer, crops, idx, tempPersonId>>
  /\ UNCHANGED <<faceApiInitialized, health, photos, now, bucketCrops,
                 testphoto, face_embeddings>>

\* Mutant of Record: a failed insert deletes the object uploaded before it.
RecordWithRollback(r) ==
  /\ pc[r] = "record"
  /\ http' = NoResponse
  /\ \E res \in {"ok", "failed"} :
       /\ hist' = Called(SetHist(r, "record", res), r, "record", 0)
       /\ testphoto' = TableInsert(testphoto,
                 [image_url |-> PublicUrl("testphoto", PhotoPath(r)),
                  status |-> "uploaded",
                  metadata |-> NoMeta,
                  run |-> r, idx |-> 0], res)
       /\ IF InsertThrows(res)
          THEN /\ HandlerCatch(r)
               /\ bucketPhotos' = {o \in bucketPhotos : o.path # PhotoPath(r)}
          ELSE /\ ui' = [ui EXCEPT ![r] = "Photo sent successfully!"]
               /\ pc' = [pc EXCEPT ![r] = "done"]
               /\ bucketPhotos' = bucketPhotos
  /\ UNCHANGED <<user, photo, buffer, crops, idx, tempPersonId>>
  /\ UNCHANGED <<faceApiInitialized, health, photos, now, bucketCrops,
                 face_embeddings>>

\* uploadPhotoAndCreateEncounter: from('testphoto').insert({... status:
\* 'uploaded' ...}) ends; then sendPhotoToEndpoint (it only logs) and the
\* success text.
Record(r) ==
  /\ pc[r] = "record"
  /\ http' = NoResponse
  /\ \E res \in {"ok", "failed"} :
       /\ hist' = Called(SetHist(r, "record", res), r, "record", 0)
       /\ testphoto' = TableInsert(testphoto,
                 [image_url |-> PublicUrl("testphoto", PhotoPath(r)),
                  status |-> "uploaded",
                  metadata |-> NoMeta,
                  run |-> r, idx |-> 0], res)
       /\ IF InsertThrows(res)
          THEN HandlerCatch(r)
          ELSE /\ ui' = [ui EXCEPT ![r] = "Photo sent successfully!"]
               /\ pc' = [pc EXCEPT ![r] = "done"]
  /\ UNCHANGED <<user, photo, buffer, crops, idx, tempPersonId>>
  /\ UNCHANGED <<faceApiInitialized, health, photos, now, bucketPhotos, bucketCrops,
                 face_embeddings>>

(* ------------------------- the routes ---------------------------------- *)
\* One element of photoList (index.ts:429-435).
Descriptor(p) == [requestId |-> p.requestId, timestamp |-> p.timestamp,
                  mimeType |-> p.mimeType]

\* res.json({ message, count: this.photos.length, photos: photoList })
PhotosJson(list) ==
  [route |-> "photos", count |-> Len(list),
   photos |-> [i \in DOMAIN list |-> Descriptor(list[i])]]

\* this.photos.find(p => p.requestId === requestId): the first entry with
\* that requestId, or NoPhoto for undefined.
Find(list, requestId) ==
  IF \E i \in DOMAIN list : list[i].requestId = requestId
  THEN list[CHOOSE i \in DOMAIN list :
              /\ list[i].requestId = requestId
              /\ \A j \in 1..(i - 1) : list[j].requestId # requestId]
  ELSE NoPhoto

\* The answer of GET /photos/:requestId: 404 when find returns undefined,
\* else photo.buffer with Content-Type photo.mimeType.
PhotoAnswer(list, requestId) ==
  IF Find(list, requestId) = NoPhoto
  THEN [route |-> "photo", requestId |-> requestId, status |-> "404",
        mimeType |-> "none", body |-> "none"]
  ELSE [route |-> "photo", requestId |-> requestId, status |-> "200",
        mimeType |-> Find(list, requestId).mimeType,
        body |-> Find(list, requestId).buffer]

\* app.get('/photos', ...)
GetPhotos ==
  /\ http' = PhotosJson(photos)
  /\ UNCHANGED <<shared, locals>>

\* app.get('/photos/:requestId', ...)
GetPhotoById ==
  /\ \E requestId \in RequestIds : http' = PhotoAnswer(photos, requestId)
  /\ UNCHANGED <<shared, locals>>

Next ==
  \/ InitializeFaceAPI
  \/ \E r \in Runs :
       \/ ButtonPress(r)
       \/ RequestPhotoFails(r)
       \/ RequestPhoto(r)
       \/ Detect(r)
       \/ Crop(r)
       \/ AnnotateFallback(r)
       \/ UploadCrop(r)
       \/ RecordCrop(r)
       \/ Embed(r)
       \/ Annotate(r)
       \/ Upload(r)
       \/ Record(r)

Spec == Init /\ [][Next]_vars

\* The handlers together with the routes.
RouteNext ==
  \/ Next
  \/ GetPhotos
  \/ GetPhotoById

RouteSpec == Init /\ [][RouteNext]_vars


(* ===================== properties of the pipeline ====================== *)
DiscardText == "No face detected - photo not saved"
SuccessText == "Photo sent successfully!"
ErrorText == "Error taking photo"

Done(r) == pc[r] = "done"

\* What run r has written so far.
CropRows(r) == {row \in testphoto : row.run = r /\ row.status = "face_crop"}
PhotoRows(r) == {row \in testphoto : row.run = r /\ row.status = "uploaded"}
EmbeddingRows(r) == {row \in face_embeddings : row.run = r}
CropObjects(r) == {o \in bucketCrops : o.run = r}
PhotoObjects(r) == {o \in bucketPhotos : o.run = r}
NoWrites(r) ==
  /\ CropRows(r) = {} /\ PhotoRows(r) = {} /\ EmbeddingRows(r) = {}
  /\ CropObjects(r) = {} /\ PhotoObjects(r) = {}

\* The outcome of a finished run, as the handler reports it.
Discarded(r) == Done(r) /\ ui[r] = DiscardText
Saved(r) == Done(r) /\ ui[r] = SuccessText
Failed(r) == Done(r) /\ ui[r] = ErrorText

\* The full-photo upload and its record write both succeeded.
Persisted(r) == hist[r].upload = "ok" /\ hist[r].record = "ok"

\* Run r is past the crop loop (or never entered it).
LoopPcs == {"uploadCrop", "recordCrop", "embed"}
PastLoop(r) == pc[r] \in {"annotate", "upload", "record", "done"}

\* C1: a run whose detect call answered has_faces=false ends at once in
\* Discarded and has written nothing: no object in either bucket, no
\* testphoto row of either status, no face_embeddings row.
C1_DiscardWritesNothing ==
  \A r \in Runs :
    hist[r].detect = "noface" => Discarded(r) /\ NoWrites(r)

C1_Witness ==
  \E r \in Runs : hist[r].detect = "noface" /\ Discarded(r) /\ faceApiInitialized

\* C2: a run is discarded only when its detect call succeeded with
\* has_faces=false; a failed detect call goes on to the upload, and no
\* answer of the crop, annotate or embedding stage discards the photo.
C2_DiscardOnlyOnNoFace ==
  \A r \in Runs :
    /\ ui[r] = DiscardText => hist[r].detect = "noface"
    /\ hist[r].detect \in {"failed", "faces"} =>
         /\ pc[r] # "detect"
         /\ Done(r) => hist[r].upload # "none" /\ (Saved(r) \/ Failed(r))
    /\ (hist[r].crop # "none" \/ hist[r].annotate # "none"
        \/ hist[r].embedFailed # {}) => ui[r] # DiscardText

C2_Witness ==
  \E r \in Runs : hist[r].detect = "failed" /\ hist[r].crop = "noface" /\ Saved(r)

\* C3 as stated: every run that found the service unavailable ends Saved.
C3_Original ==
  \A r \in Runs : hist[r].gate = "unavailable" /\ Done(r) => Saved(r)

\* C3 (amended): a run that found the service unavailable is never
\* discarded, makes no call to the face service, uploads the original
\* bytes, and ends Saved exactly when the upload and the record write
\* succeed; otherwise it ends with the error text.
C3_UnavailableNeverDiscards ==
  \A r \in Runs :
    hist[r].gate = "unavailable" =>
      /\ ui[r] # DiscardText
      /\ pc[r] \in {"upload", "record", "done"}
      /\ hist[r].detect = "skipped" /\ hist[r].crop = "none" /\ hist[r].annotate = "none"
      /\ buffer[r] = "original"
      /\ Done(r) => (Saved(r) <=> Persisted(r)) /\ (Saved(r) \/ Failed(r))

C3_Witness ==
  \E r \in Runs : hist[r].gate = "unavailable" /\ Saved(r) /\ Persisted(r)

\* C4 as stated: when the upload or record write of a face crop fails, the
\* run ends with the error text and the full photo is neither uploaded nor
\* recorded.
C4_CropFailureIsFatal ==
  \A r \in Runs :
    hist[r].cropAbort # 0 /\ Done(r) =>
      Failed(r) /\ PhotoObjects(r) = {} /\ PhotoRows(r) = {}

\* C5: a failed embedding step of crop i leaves crop i's face_crop row in
\* place, does not end the crop loop (the loop goes on with crop i+1, and
\* every crop gets its row unless a crop upload or record write fails), and
\* the run still reaches the annotate call and its usual outcome.
C5_EmbeddingFailureIsLocal ==
  \A r \in Runs : \A i \in hist[r].embedFailed :
    /\ \E row \in CropRows(r) : row.idx = i
    /\ hist[r].cropAbort # i
    /\ \/ pc[r] \in LoopPcs /\ idx[r] > i
       \/ PastLoop(r)
    /\ PastLoop(r) /\ hist[r].cropAbort = 0 =>
         /\ \A k \in 1..Len(crops[r]) : \E row \in CropRows(r) : row.idx = k
         /\ pc[r] = "annotate" \/ hist[r].annotate # "none"
    /\ Done(r) => (Saved(r) <=> Persisted(r))

C5_Witness ==
  \E r \in Runs :
    /\ 1 \in hist[r].embedFailed /\ Len(crops[r]) = 2
    /\ Saved(r) /\ Cardinality(CropRows(r)) = 2

\* C6: when the crop call answered a list of N crops and no crop upload or
\* record write failed, the run has written exactly N face_crop rows, one
\* per crop, and their temp_person_id values are pairwise distinct.
C6_OneRowPerCrop ==
  \A r \in Runs :
    /\ hist[r].crop = "faces" /\ hist[r].cropAbort = 0 /\ PastLoop(r) =>
         /\ Cardinality(CropRows(r)) = Len(crops[r])
         /\ \A k \in 1..Len(crops[r]) :
              \E row \in CropRows(r) : row.idx = k /\ row.metadata.face_id = crops[r][k]
    /\ \A a, b \in CropRows(r) :
         a # b => a.metadata.temp_person_id # b.metadata.temp_person_id

C6_Witness ==
  \E r \in Runs :
    /\ hist[r].crop = "faces" /\ hist[r].cropAbort = 0 /\ Done(r)
    /\ Len(crops[r]) = MaxCrops /\ Cardinality(CropRows(r)) = MaxCrops

\* C7: every row points to an object that the same run has uploaded before:
\* a face_crop row to an object of bucket face_crops, an uploaded row to an
\* object of bucket testphoto; and a run waits for a record write only
\* after its own upload of that object has succeeded.
C7_RecordAfterUpload ==
  /\ \A row \in testphoto :
       IF row.status = "face_crop"
       THEN /\ row.image_url.bucket = "face_crops"
            /\ \E o \in bucketCrops :
                 o.path = row.image_url.path /\ o.run = row.run /\ o.idx = row.idx
       ELSE /\ row.image_url.bucket = "testphoto"
            /\ \E o \in bucketPhotos : o.path = row.image_url.path /\ o.run = row.run
  /\ \A r \in Runs :
       /\ pc[r] = "recordCrop" =>
            \E o \in bucketCrops : o.path = CropPath(r) /\ o.run = r /\ o.idx = idx[r]
       /\ pc[r] = "record" =>
            /\ hist[r].upload = "ok"
            /\ \E o \in bucketPhotos : o.path = PhotoPath(r) /\ o.run = r
       /\ hist[r].upload \in {"exists", "failed"} =>
            hist[r].record = "none" /\ PhotoRows(r) = {}

C7_Witness ==
  \E r, q \in Runs :
    /\ CropRows(r) # {} /\ PhotoRows(r) # {}
    /\ hist[q].upload = "failed" /\ Done(q)


C9_Original ==
  \A r \in Runs :
    health = "disabled" /\ Done(r) /\ photo[r] # NoPhoto => Saved(r)

\* C9 (amended): after a failed health check the flag stays unset, no run
\* ever asks the face service, no crop object, face_crop row or embedding
\* row is ever written, no photo is discarded, and every photo ends Saved
\* exactly when its upload and record write succeed (otherwise with the
\* error text).
C9_FailedHealthCheckDisables ==
  health = "disabled" =>
    /\ ~faceApiInitialized
    /\ bucketCrops = {} /\ face_embeddings = {}
    /\ \A r \in Runs :
         /\ hist[r].gate # "available"
         /\ pc[r] \in {"idle", "requestPhoto", "upload", "record", "done"}
         /\ CropRows(r) = {}
         /\ ui[r] # DiscardText
         /\ Done(r) /\ photo[r] # NoPhoto =>
              (Saved(r) <=> Persisted(r)) /\ (Saved(r) \/ Failed(r))

C9_Witness ==
  /\ health = "disabled"
  /\ \E r, q \in Runs : Saved(r) /\ Failed(q) /\ hist[q].gate = "unavailable"

\* C10: an upload of the full photo to a path that already holds an object
\* fails: the run ends with the error text and writes no uploaded row, the
\* object stored by the earlier run stays as that run stored it, and no
\* two uploaded rows point to the same object.
C10_SecondUploadFails ==
  /\ \A r \in Runs :
       /\ hist[r].upload = "exists" =>
            Failed(r) /\ PhotoRows(r) = {} /\ PhotoObjects(r) = {}
       /\ hist[r].upload = "ok" =>
            \E o \in bucketPhotos :
              o.path = PhotoPath(r) /\ o.run = r /\ o.content = buffer[r]
  /\ \A r, q \in Runs :
       r # q /\ user[r] = user[q] /\ photo[r] = photo[q] /\ photo[r] # NoPhoto =>
         ~(hist[r].upload = "ok" /\ hist[q].upload = "ok")
  /\ \A a, b \in testphoto :
       a.status = "uploaded" /\ b.status = "uploaded" /\ a.image_url = b.image_url
         => a = b

C10_Witness ==
  \E r, q \in Runs :
    /\ r # q /\ user[r] = user[q] /\ photo[r] = photo[q]
    /\ Saved(q)
    /\ hist[r].upload = "exists" /\ Failed(r)

\* Run r went down the whole face path without a failure: detect and
\* /crop-faces both answered has_faces=true, storeFaceCrops did not throw,
\* /process-faces answered, and the full photo was uploaded and recorded.
FacePathSucceeded(r) ==
  /\ hist[r].detect = "faces" /\ hist[r].crop = "faces"
  /\ Len(crops[r]) >= 1 /\ hist[r].cropAbort = 0
  /\ hist[r].annotate = "ok"
  /\ Persisted(r)

\* C11: a run on a photo with N >= 1 face crops in which every call and
\* every write succeeded ends Saved, having written exactly one uploaded
\* row, whose object holds the annotated photo, exactly N face_crop rows
\* and exactly k embedding rows, k being the number of crops whose embedding
\* step reported success (0 <= k <= N).
C11_FacePathWrites ==
  \A r \in Runs :
    FacePathSucceeded(r) =>
      /\ Saved(r)
      /\ Cardinality(PhotoRows(r)) = 1
      /\ \A o \in PhotoObjects(r) : o.content = "annotated"
      /\ PhotoObjects(r) # {}
      /\ Cardinality(CropRows(r)) = Len(crops[r])
      /\ {row.idx : row \in CropRows(r)} = 1..Len(crops[r])
      /\ {row.idx : row \in EmbeddingRows(r)} = (1..Len(crops[r])) \ hist[r].embedFailed
      /\ Cardinality(EmbeddingRows(r)) = Len(crops[r]) - Cardinality(hist[r].embedFailed)
      /\ Cardinality(EmbeddingRows(r)) \in 0..Len(crops[r])

C11_Witness ==
  \E r \in Runs :
    /\ FacePathSucceeded(r)
    /\ Len(crops[r]) = 2
    /\ Cardinality(EmbeddingRows(r)) = 1
    /\ Cardinality(CropRows(r)) = 2

\* Some call of run r to the face service answered has_faces=true.
FaceReported(r) ==
  \/ hist[r].detect = "faces"
  \/ hist[r].crop = "faces"
  \/ hist[r].annotate = "faces"

\* C12: only photos with detected faces are saved: a run uploads its photo
\* or writes its uploaded row only if a call to the face service answered
\* for that photo that it holds at least one face.
C12_OnlyDetectedFacesSaved ==
  \A r \in Runs :
    (PhotoObjects(r) # {} /\ PhotoRows(r) # {}) => FaceReported(r)

\* Run r holds a captured photo and has not yet reached its terminal text.
InPipeline(r) == pc[r] \notin {"idle", "requestPhoto", "done"}

\* C13: within one session pipeline runs do not overlap: while the pipeline
\* of one capture has not reached its terminal outcome, no step of the
\* pipeline of another capture of the same session has been taken.
C13_RunsDoNotOverlap ==
  \A r, q \in Runs :
    r # q /\ user[r] = user[q] => ~(InPipeline(r) /\ InPipeline(q))

\* The names of the requests run r has sent so far.
CallNames(r) == {hist[r].calls[i][1] : i \in DOMAIN hist[r].calls}

\* C14: the availability decision is taken once per run: a run whose gate
\* found the face service not initialized skips the detect call and goes
\* straight to the upload of the unmodified original; it makes no
\* /crop-faces, /process-faces or /generate-embedding call and writes no
\* crop object, crop row or embedding row, also when the health check sets
\* the flag while the run is in progress.
C14_GateDecidesOnce ==
  \A r \in Runs :
    hist[r].gate = "unavailable" =>
      /\ hist[r].detect = "skipped"
      /\ pc[r] \in {"upload", "record", "done"}
      /\ CallNames(r) \subseteq {"upload", "record"}
      /\ hist[r].crop = "none" /\ hist[r].annotate = "none"
      /\ CropObjects(r) = {} /\ CropRows(r) = {} /\ EmbeddingRows(r) = {}
      /\ buffer[r] = "original"
      /\ \A o \in PhotoObjects(r) : o.content = "original"

C14_Witness ==
  \E r \in Runs :
    /\ hist[r].gate = "unavailable"
    /\ faceApiInitialized
    /\ pc[r] = "record"
    /\ \E o \in PhotoObjects(r) : o.content = "original"

\* Detect answered has_faces=true and /crop-faces answered has_faces=false.
CropFoundNoFace(r) == hist[r].detect = "faces" /\ hist[r].crop = "noface"

\* C15 as stated: when detect answers has_faces=true and /crop-faces
\* answers has_faces=false, no crop or embedding row is written and the run
\* still makes the /process-faces call before it uploads the photo.
C15_Original ==
  \A r \in Runs :
    CropFoundNoFace(r) =>
      /\ CropRows(r) = {} /\ EmbeddingRows(r) = {}
      /\ "upload" \in CallNames(r) => "annotate" \in CallNames(r)

\* C15 amended: when detect answers has_faces=true and /crop-faces answers
\* has_faces=false, no crop or embedding row is written, no /process-faces
\* call is made, and the run goes straight to the upload of the unmodified
\* original: it ends with the success text when the upload and the insert
\* succeed and with the error text otherwise.
C15_NoCropFaceSkipsAnnotate ==
  \A r \in Runs :
    CropFoundNoFace(r) =>
      /\ CropObjects(r) = {} /\ CropRows(r) = {} /\ EmbeddingRows(r) = {}
      /\ "annotate" \notin CallNames(r) /\ hist[r].annotate = "none"
      /\ pc[r] \in {"upload", "record", "done"}
      /\ buffer[r] = "original"
      /\ \A o \in PhotoObjects(r) : o.content = "original"
      /\ Done(r) => /\ hist[r].upload # "none"
                    /\ Saved(r) <=> Persisted(r)
                    /\ Failed(r) <=> ~Persisted(r)
                    /\ Saved(r) <=> PhotoRows(r) # {}

C15_Witness ==
  \E r \in Runs :
    /\ CropFoundNoFace(r)
    /\ Saved(r)
    /\ \E o \in PhotoObjects(r) : o.content = "original"

\* C16: when a /process-faces call fails (after the crops were stored, or
\* on the Phase 1 fallback path), the run falls back to the unmodified
\* original and goes on to upload and record it: the run is not discarded,
\* it shows the error text only if the full-photo upload or insert fails,
\* and the crop and embedding rows the run has written stay in place.
C16_AnnotateFailureKeepsPhoto ==
  \A r \in Runs :
    hist[r].annotate = "failed" =>
      /\ pc[r] \in {"upload", "record", "done"}
      /\ buffer[r] = "original"
      /\ \A o \in PhotoObjects(r) : o.content = "original"
      /\ ~Discarded(r)
      /\ Done(r) => /\ "upload" \in CallNames(r)
                    /\ Saved(r) <=> Persisted(r)
                    /\ Failed(r) <=> ~Persisted(r)
                    /\ Saved(r) <=> PhotoRows(r) # {}
      /\ hist[r].crop = "faces" =>
           /\ hist[r].cropAbort = 0
           /\ {row.idx : row \in CropRows(r)} = 1..Len(crops[r])
           /\ {row.idx : row \in EmbeddingRows(r)}
                = (1..Len(crops[r])) \ hist[r].embedFailed
      /\ hist[r].crop # "faces" => CropRows(r) = {} /\ EmbeddingRows(r) = {}

C16_Witness ==
  \E r, q \in Runs :
    /\ hist[r].annotate = "failed" /\ hist[r].crop = "faces"
    /\ Saved(r) /\ CropRows(r) # {} /\ EmbeddingRows(r) # {}
    /\ hist[q].annotate = "failed" /\ hist[q].crop = "status"
    /\ pc[q] \in {"record", "done"}

\* The requests storeFaceCrops sends for a list of n crops when nothing
\* fails, in the order of its loop body (index.ts:252, 269, 292).
LoopStepOrder == <<"uploadCrop", "recordCrop", "embed">>
LoopCalls(n) ==
  [i \in 1..(3 * n) |-> <<LoopStepOrder[((i - 1) % 3) + 1], ((i - 1) \div 3) + 1>>]

\* The requests of run r that belong to a loop position, in the order sent.
CropCalls(r) == SelectSeq(hist[r].calls, LAMBDA c : c[2] > 0)

\* C17: storeFaceCrops handles the crops one after the other in list order,
\* each crop in the order upload, face_crop row, embedding step, and no
\* request for crop i+1 is sent before the embedding step of crop i has
\* ended; the /process-faces call and the full-photo upload are sent only
\* after the embedding step of the last crop of the list has ended.
C17_CropsInOrderBeforeUpload ==
  \A r \in Runs :
    hist[r].crop = "faces" =>
      /\ Len(CropCalls(r)) <= 3 * Len(crops[r])
      /\ \A i \in DOMAIN CropCalls(r) : CropCalls(r)[i] = LoopCalls(Len(crops[r]))[i]
      /\ \A i, j \in DOMAIN hist[r].calls :
           hist[r].calls[i][2] > 0 /\ hist[r].calls[j][2] = 0
             /\ hist[r].calls[j][1] \in {"annotate", "upload", "record"} => i < j
      /\ ("annotate" \in CallNames(r) \/ "upload" \in CallNames(r)) =>
           Len(CropCalls(r)) = 3 * Len(crops[r])

\* C18: every face_embeddings row refers to a face_crop row that is already
\* written and has the same temp_person_id and the same crop URL; no two
\* face_embeddings rows refer to the same crop; a row exists only for a crop
\* whose embedding step reported success; and every row has
\* is_processed = false.
C18_EmbeddingRowsWellFormed ==
  /\ \A e \in face_embeddings :
       /\ \E row \in testphoto :
            /\ row.status = "face_crop"
            /\ row.image_url = e.face_crop_url
            /\ row.metadata.temp_person_id = e.temp_person_id
            /\ row.run = e.run /\ row.idx = e.idx
       /\ e.idx \notin hist[e.run].embedFailed
       /\ <<"embed", e.idx>> \in {hist[e.run].calls[i] : i \in DOMAIN hist[e.run].calls}
       /\ e.is_processed = FALSE
  /\ \A e1, e2 \in face_embeddings :
       (e1.face_crop_url = e2.face_crop_url \/ (e1.run = e2.run /\ e1.idx = e2.idx))
         => e1 = e2

C18_Witness ==
  \E r \in Runs :
    /\ Cardinality(EmbeddingRows(r)) = 1
    /\ Cardinality(CropRows(r)) = 2
    /\ hist[r].embedFailed # {}
    /\ \E q \in Runs : q # r /\ EmbeddingRows(q) # {}

\* C19: no stage is retried: a run sends each of its requests at most once
\* (one /detect-faces, one /crop-faces, one /process-faces, per crop one
\* upload, one insert and one embedding step, and one upload and one insert
\* for the full photo), whatever the requests answer.
C19_NoRetry ==
  \A r \in Runs :
    /\ \A i, j \in DOMAIN hist[r].calls :
         hist[r].calls[i] = hist[r].calls[j] => i = j
    /\ \A i \in DOMAIN hist[r].calls :
         /\ hist[r].calls[i][2] \in 0..Len(crops[r])
         /\ hist[r].calls[i][2] > 0 <=> hist[r].calls[i][1] \in
              {LoopStepOrder[k] : k \in DOMAIN LoopStepOrder}

C19_Witness ==
  \E r, q \in Runs :
    /\ Done(r) /\ hist[r].cropAbort = 2 /\ hist[r].upload = "failed"
    /\ 1 \in hist[r].embedFailed
    /\ Done(q) /\ hist[q].detect = "failed" /\ hist[q].crop = "status"
    /\ hist[q].annotate = "failed" /\ hist[q].record = "failed"

\* The texts the handler shows when it ends.
TerminalTexts == {DiscardText, SuccessText, ErrorText}

\* C20: every run of the handler ends with exactly one terminal text out of
\* the discard text, the success text and the error text: a finished run
\* shows one of them, a run that is not finished shows none, and once one
\* is shown the run shows nothing else.  The success text is shown if and
\* only if the run wrote its uploaded row, and a failed full-photo upload or
\* insert ends the run with the error text.
C20_OneTerminalText ==
  /\ [](\A r \in Runs :
          /\ Done(r) <=> ui[r] \in TerminalTexts
          /\ ui[r] = SuccessText <=> PhotoRows(r) # {}
          /\ Cardinality(PhotoRows(r)) <= 1
          /\ (hist[r].upload \in {"failed", "exists"} \/ hist[r].record = "failed")
               => Failed(r) /\ PhotoRows(r) = {}
          /\ Done(r) /\ "upload" \in CallNames(r) /\ ~Persisted(r) => Failed(r))
  /\ [][\A r \in Runs :
          /\ ui[r] \in TerminalTexts => ui'[r] = ui[r] /\ hist'[r] = hist[r]
          /\ ui'[r] # ui[r] /\ ui[r] # "none" => ui'[r] \in TerminalTexts]_vars

C20_Witness ==
  \E r, q \in Runs :
    /\ Saved(r) /\ PhotoRows(r) # {}
    /\ Failed(q) /\ hist[q].upload = "ok" /\ hist[q].record = "failed"
    /\ PhotoRows(q) = {} /\ PhotoObjects(q) # {}

\* The requests run r has sent so far.
CallSet(r) == {hist[r].calls[i] : i \in DOMAIN hist[r].calls}

\* The insert of the face_crop row of position k of run r was sent after
\* the upload of its object had succeeded, and the insert failed.
CropRecordFailed(r, k) ==
  /\ <<"recordCrop", k>> \in CallSet(r)
  /\ \A row \in CropRows(r) : row.idx # k

\* C21: when the upload of the full photo succeeds and the insert of its
\* row fails, the run ends with the error text and the uploaded object
\* stays in the bucket as it was stored, with no row pointing to it; the
\* same holds for a crop object whose face_crop insert fails.
C21_FailedRecordLeavesObject ==
  \A r \in Runs :
    /\ hist[r].upload = "ok" /\ hist[r].record = "failed" =>
         /\ Failed(r)
         /\ \E o \in bucketPhotos :
              o.path = PhotoPath(r) /\ o.run = r /\ o.content = buffer[r]
         /\ \A row \in testphoto :
              row.image_url # PublicUrl("testphoto", PhotoPath(r))
    /\ \A k \in 1..Len(crops[r]) :
         CropRecordFailed(r, k) =>
           /\ hist[r].cropAbort = k
           /\ \E o \in bucketCrops : o.run = r /\ o.idx = k
           /\ \A o \in bucketCrops : o.run = r /\ o.idx = k =>
                \A row \in testphoto :
                  row.image_url # PublicUrl("face_crops", o.path)

C21_Witness ==
  \E r, q \in Runs :
    /\ hist[r].upload = "ok" /\ hist[r].record = "failed" /\ Failed(r)
    /\ PhotoObjects(r) # {} /\ PhotoRows(r) = {}
    /\ CropRecordFailed(q, 1) /\ Done(q)
    /\ \E o \in bucketCrops : o.run = q /\ o.idx = 1

\* The upload of the crop object of position k of run r failed.
CropUploadFailed(r, k) ==
  /\ <<"uploadCrop", k>> \in CallSet(r)
  /\ \A o \in CropObjects(r) : o.idx # k

\* C24: when the upload or the insert of crop k fails, the loop of
\* storeFaceCrops stops there: the failed crop gets no further step, no
\* request is sent and nothing is written for the crops after it, and the
\* face_crop rows, objects and embedding rows of the crops before it stay
\* in place.
C24_LoopStopsAtFailedCrop ==
  \A r \in Runs : \A k \in 1..Len(crops[r]) :
    CropUploadFailed(r, k) \/ CropRecordFailed(r, k) =>
      /\ hist[r].cropAbort = k /\ PastLoop(r) /\ idx[r] = k
      /\ <<"embed", k>> \notin CallSet(r)
      /\ CropUploadFailed(r, k) => <<"recordCrop", k>> \notin CallSet(r)
      /\ \A c \in CallSet(r) : c[2] <= k
      /\ \A o \in CropObjects(r) : o.idx <= k
      /\ {row.idx : row \in CropRows(r)} = 1..(k - 1)
      /\ (1..(k - 1)) \subseteq {o.idx : o \in CropObjects(r)}
      /\ {row.idx : row \in EmbeddingRows(r)} = (1..(k - 1)) \ hist[r].embedFailed

C24_Witness ==
  \E r, q \in Runs :
    /\ Len(crops[r]) = 2 /\ CropUploadFailed(r, 1) /\ Done(r)
    /\ Len(crops[q]) = 2 /\ CropRecordFailed(q, 2) /\ Done(q)
    /\ Cardinality(CropRows(q)) = 1 /\ Cardinality(EmbeddingRows(q)) = 1

\* requestPhoto() of run r has resolved.
Captured(r) == photo[r] # NoPhoto

\* C22: the registry is append-only and keeps insertion order under any
\* interleaving of sessions: every captured photo is pushed exactly once,
\* before the first step of its pipeline, and stays in the registry
\* whatever the outcome of its run; a step either leaves the registry as it
\* is or appends one photo at its end; and GET /photos answers one
\* descriptor per entry, in insertion order, with count equal to the number
\* of captures so far.
C22_RegistryAppendOnly ==
  /\ [](/\ Len(photos) = Cardinality({r \in Runs : Captured(r)})
        /\ \A r \in Runs :
             /\ Captured(r) => \E i \in DOMAIN photos : photos[i] = photo[r]
             /\ (hist[r].gate # "none" \/ InPipeline(r)) => Captured(r)
        /\ http.route = "photos" =>
             /\ http.count = Cardinality({r \in Runs : Captured(r)})
             /\ Len(http.photos) = Len(photos)
             /\ \A i \in DOMAIN photos :
                  /\ http.photos[i].requestId = photos[i].requestId
                  /\ http.photos[i].timestamp = photos[i].timestamp
                  /\ http.photos[i].mimeType = photos[i].mimeType)
  /\ [][\/ photos' = photos
        \/ \E r \in Runs :
             /\ ~Captured(r) /\ Captured(r)'
             /\ photos' = Append(photos, photo'[r])]_vars

C22_Witness ==
  \E r, q \in Runs :
    /\ user[r] # user[q]
    /\ Discarded(r) /\ Failed(q) /\ Captured(q)
    /\ http.route = "photos" /\ http.count = 2
    /\ http.photos[1].requestId # http.photos[2].requestId

====
